---------------------------- MODULE Spec2Model ----------------------------
(***************************************************************************)
(* Model of scripts/pin_mod_versions.py: the dependency codec (parse_dep,  *)
(* build_dep), release selection (fetch_latest_version), the patch bump    *)
(* (parse_version, bump_patch) and the per-manifest pass (process_file).   *)
(*                                                                         *)
(* A Python str is a sequence of one-character strings, so that matching,  *)
(* splitting, joining and number conversion are computed, not assumed.     *)
(* None and the empty string are both the empty sequence where the code    *)
(* only tests truthiness.                                                  *)
(***************************************************************************)
EXTENDS Integers, Sequences, FiniteSets, TLC

VARIABLES
    codec,      \* SpecCodec: the string given to parse_dep and what came back
    sel,        \* SpecSelect: a release list, a wanted tag, the selection
    bmp,        \* SpecBump: the two versions given to bump_patch, the result
    file,       \* the info.json on disk: name, version, factorio_version, dependencies
    args,       \* process_file's mode, write, force, upgrade, bump
    catalog,    \* what the mod portal answers: "live", "empty" or "down"
    run,        \* which call of process_file this is (0 before the first)
    pc,         \* "loop" inside process_file, "done" returned, "error" raised
    info,       \* the manifest as loaded (info["version"] set by the bump)
    current_version,
    deps,
    new_deps,
    changed,
    deps_changed,
    deps_latest_mismatch,
    queries     \* the calls of fetch_latest_version of this run, in order

pfvars == <<file, args, catalog, run, pc, info, current_version, deps, new_deps,
            changed, deps_changed, deps_latest_mismatch, queries>>

vars == <<codec, sel, bmp, pfvars>>

---------------------------------------------------------------------------
(* Characters and string helpers *)

Space == {" "}

FlagChars == {"!", "?"}

DigitSeq == <<"0", "1", "2", "3", "4", "5", "6", "7", "8", "9">>

DigitChars == {DigitSeq[k] : k \in 1..Len(DigitSeq)}

Letters ==
    {"a","b","c","d","e","f","g","h","i","j","k","l","m",
     "n","o","p","q","r","s","t","u","v","w","x","y","z",
     "A","B","C","D","E","F","G","H","I","J","K","L","M",
     "N","O","P","Q","R","S","T","U","V","W","X","Y","Z"}

\* [A-Za-z0-9_-]
NameChars == Letters \cup DigitChars \cup {"_", "-"}

\* [0-9.]
VerChars == DigitChars \cup {"."}

\* (>=|<=|==|=|~>), in the order the alternation tries them
OpSeq == << <<">","=">>, <<"<","=">>, <<"=","=">>, <<"=">>, <<"~",">">> >>

Ops == {OpSeq[k] : k \in 1..Len(OpSeq)}

\* The first position j >= i of s that does not hold a character of C
\* (Len(s)+1 when there is none): where a greedy C* starting at i ends.
RECURSIVE SkipWhile(_, _, _)
SkipWhile(s, i, C) ==
    IF i > Len(s) THEN i
    ELSE IF s[i] \notin C THEN i
    ELSE SkipWhile(s, i + 1, C)

Slice(s, a, b) == [k \in 1..(b - a + 1) |-> s[a + k - 1]]

\* Whether s holds t at position i
HasAt(s, i, t) ==
    /\ i + Len(t) - 1 <= Len(s)
    /\ \A k \in 1..Len(t) : s[i + k - 1] = t[k]

None == <<>>

---------------------------------------------------------------------------
(* Versions: str.split("."), int(), tuple comparison, str(int) *)

\* The positions of s that hold sep
SepPositions(s, sep) == {k \in 1..Len(s) : s[k] = sep}

\* s.split(sep) for a one-character sep
RECURSIVE Split(_, _)
Split(s, sep) ==
    IF SepPositions(s, sep) = {}
    THEN <<s>>
    ELSE LET k == CHOOSE j \in SepPositions(s, sep) :
                      \A l \in SepPositions(s, sep) : j <= l
         IN  <<Slice(s, 1, k - 1)>> \o Split(Slice(s, k + 1, Len(s)), sep)

\* sep.join(parts)
RECURSIVE Join(_, _)
Join(parts, sep) ==
    IF Len(parts) = 0 THEN <<>>
    ELSE IF Len(parts) = 1 THEN parts[1]
    ELSE parts[1] \o sep \o Join(Tail(parts), sep)

\* int(p) succeeds: p is a non-empty run of decimal digits
IsInt(p) == Len(p) > 0 /\ \A k \in 1..Len(p) : p[k] \in DigitChars

DigitVal(c) == (CHOOSE k \in 1..Len(DigitSeq) : DigitSeq[k] = c) - 1

\* int(p) for a p that IsInt
RECURSIVE int(_)
int(p) ==
    IF Len(p) = 0 THEN 0
    ELSE int(Slice(p, 1, Len(p) - 1)) * 10 + DigitVal(p[Len(p)])

\* str(n), n >= 0
RECURSIVE str(_)
str(n) ==
    IF n < 10 THEN <<DigitSeq[n + 1]>>
    ELSE str(n \div 10) \o <<DigitSeq[(n % 10) + 1]>>

\* Python's a > b on tuples of ints: the first difference decides, and a
\* proper prefix is the smaller
TupleGT(a, b) ==
    \/ \E k \in 1..Len(a) :
          /\ k <= Len(b)
          /\ \A j \in 1..(k - 1) : a[j] = b[j]
          /\ a[k] > b[k]
    \/ /\ Len(a) > Len(b)
       /\ \A j \in 1..Len(b) : a[j] = b[j]

\* parse_ver (nested in fetch_latest_version): no padding; a part that is
\* not an integer raises ValueError (ok = FALSE)
parse_ver(v) ==
    LET parts == Split(v, ".")
    IN  IF \A k \in 1..Len(parts) : IsInt(parts[k])
        THEN [ok |-> TRUE, t |-> [k \in 1..Len(parts) |-> int(parts[k])]]
        ELSE [ok |-> FALSE]

\* parse_version: padded with zeros to three parts, the first three returned
parse_version(v) ==
    LET parts == Split(v, ".")
    IN  IF \A k \in 1..Len(parts) : IsInt(parts[k])
        THEN [ok |-> TRUE,
              t  |-> [k \in 1..3 |-> IF k <= Len(parts) THEN int(parts[k]) ELSE 0]]
        ELSE [ok |-> FALSE]

\* max(a, b) of two tuples: the first argument unless the second is greater
max(a, b) == IF TupleGT(b, a) THEN b ELSE a

\* bump_patch that ignores the remote version
bump_patch_local(local_ver, remote_ver) ==
    LET l == parse_version(local_ver)
    IN  IF ~l.ok THEN [ok |-> FALSE]
        ELSE [ok |-> TRUE,
              v |-> str(l.t[1]) \o <<".">> \o str(l.t[2]) \o <<".">> \o str(l.t[3] + 1)]

\* bump_patch: ok = FALSE when a version does not parse (ValueError)
bump_patch(local_ver, remote_ver) ==
    LET l == parse_version(local_ver)
        r == IF remote_ver # None THEN parse_version(remote_ver)
             ELSE [ok |-> TRUE, t |-> <<0, 0, 0>>]
    IN  IF ~l.ok \/ ~r.ok THEN [ok |-> FALSE]
        ELSE LET base == max(l.t, r.t)
             IN  [ok |-> TRUE,
                  v |-> str(base[1]) \o <<".">> \o str(base[2]) \o <<".">>
                        \o str(base[3] + 1)]

---------------------------------------------------------------------------
(* fetch_latest_version: the selection among a payload's releases *)

\* A release is [fv |-> info_json.factorio_version, version |-> version];
\* "" and <<>> stand for a missing (or empty) field.

\* Lines 80-91: the (priority, version tuple, version) candidates, in the
\* order of the releases; raises when a version does not parse
candidates_of(releases, want_factorio) ==
    LET kept == SelectSeq(releases, LAMBDA rel : rel.version # None)
    IN  IF \E k \in 1..Len(kept) : ~parse_ver(kept[k].version).ok
        THEN [ok |-> FALSE]
        ELSE [ok |-> TRUE,
              c  |-> [k \in 1..Len(kept) |->
                        [pri |-> IF /\ want_factorio # ""
                                    /\ kept[k].fv # ""
                                    /\ kept[k].fv # want_factorio
                                 THEN 1 ELSE 0,
                         t   |-> parse_ver(kept[k].version).t,
                         ver |-> kept[k].version]]]

\* (a.pri, a.t) >= (b.pri, b.t), the sort key of lines 97-103
KeyGE(a, b) ==
    \/ a.pri > b.pri
    \/ a.pri = b.pri /\ ~TupleGT(b.t, a.t)

\* sorted(cs, key=(pri, t), reverse=True): descending and stable, an element
\* going after every element whose key is not smaller
RECURSIVE sorted_desc(_)
sorted_desc(cs) ==
    IF Len(cs) = 0 THEN <<>>
    ELSE LET front == sorted_desc(Slice(cs, 1, Len(cs) - 1))
             x     == cs[Len(cs)]
             n     == Cardinality({k \in 1..Len(front) : KeyGE(front[k], x)})
         IN  Slice(front, 1, n) \o <<x>> \o Slice(front, n + 1, Len(front))

\* Lines 101-106 with the priority test dropped: the highest version wins
RECURSIVE pick_best_anypri(_, _, _)
pick_best_anypri(cs, k, best) ==
    IF k > Len(cs) THEN best
    ELSE pick_best_anypri(cs, k + 1,
            IF best.none \/ TupleGT(cs[k].t, best.t)
            THEN [none |-> FALSE, pri |-> cs[k].pri, t |-> cs[k].t, ver |-> cs[k].ver]
            ELSE best)

\* Lines 101-106: the loop over the sorted candidates from position k
RECURSIVE pick_best(_, _, _)
pick_best(cs, k, best) ==
    IF k > Len(cs) THEN best
    ELSE pick_best(cs, k + 1,
            IF \/ best.none
               \/ cs[k].pri < best.pri
               \/ (cs[k].pri = best.pri /\ TupleGT(cs[k].t, best.t))
            THEN [none |-> FALSE, pri |-> cs[k].pri, t |-> cs[k].t, ver |-> cs[k].ver]
            ELSE best)

\* Lines 71-107: what fetch_latest_version returns for a payload's releases:
\* kind "ver" with the version, "None", or "raise" (ValueError from parse_ver)
latest_of(releases, want_factorio) ==
    IF Len(releases) = 0 THEN [kind |-> "None"]
    ELSE LET cand == candidates_of(releases, want_factorio)
         IN  IF ~cand.ok THEN [kind |-> "raise"]
             ELSE IF Len(cand.c) = 0 THEN [kind |-> "None"]
             ELSE LET s1   == sorted_desc(cand.c)
                      s2   == sorted_desc(s1)
                      best == pick_best(sorted_desc(s2), 1, [none |-> TRUE])
                  IN  [kind |-> "ver", v |-> best.ver]

---------------------------------------------------------------------------
(* parse_dep / build_dep *)

\* DEP_RE.match(dep): the groups (flag, name, op, ver) and whether it matched.
\* Every quantifier of DEP_RE is greedy over a class disjoint from what may
\* follow it, so the match is the left-to-right scan below.
DEP_RE_match(dep) ==
    LET n     == Len(dep)
        p0    == SkipWhile(dep, 1, Space)
        hasF  == p0 <= n /\ dep[p0] \in FlagChars
        p1    == SkipWhile(dep, IF hasF THEN p0 + 1 ELSE p0, Space)
        p2    == SkipWhile(dep, p1, NameChars)
        p3    == SkipWhile(dep, p2, Space)
        found == {k \in 1..Len(OpSeq) : HasAt(dep, p3, OpSeq[k])}
        \* the first alternative that lets the rest match: a two-character
        \* operator when there is one, "=" otherwise
        opk   == CHOOSE k \in found : \A l \in found : k <= l
        op    == OpSeq[opk]
        p4    == SkipWhile(dep, p3 + Len(op), Space)
        p5    == SkipWhile(dep, p4, VerChars)
        p6    == SkipWhile(dep, p5, Space)
        grp1  == IF hasF THEN <<dep[p0]>> ELSE None
        name  == Slice(dep, p1, p2 - 1)
    IN  IF p2 = p1
        THEN [ok |-> FALSE]
        ELSE IF p3 = n + 1
        THEN [ok |-> TRUE, flag |-> grp1, name |-> name, op |-> None, ver |-> None]
        ELSE IF /\ found # {}
                /\ p4 <= n
                /\ dep[p4] \in DigitChars
                /\ p6 = n + 1
        THEN [ok |-> TRUE, flag |-> grp1, name |-> name, op |-> op,
              ver |-> Slice(dep, p4, p5 - 1)]
        ELSE [ok |-> FALSE]

\* parse_dep: raises ValueError (ok = FALSE) when DEP_RE does not match
parse_dep(dep) == DEP_RE_match(dep)

\* build_dep with the space after the flag left out
build_dep_nospace(flag, name, op, ver) ==
    IF op # None /\ ver # None
    THEN flag \o name \o <<" ">> \o op \o <<" ">> \o ver
    ELSE flag \o name

build_dep(flag, name, op, ver) ==
    LET prefix == IF flag # None THEN flag \o <<" ">> ELSE None
    IN  IF op # None /\ ver # None
        THEN prefix \o name \o <<" ">> \o op \o <<" ">> \o ver
        ELSE prefix \o name

---------------------------------------------------------------------------
(* SpecCodec: parse_dep and build_dep on every short string *)

MaxLen == 5

CodecAlphabet == {" ", "?", "a", "=", ">", "~", "1", "."}

RECURSIVE StringsUpTo(_, _)
StringsUpTo(A, n) ==
    IF n = 0 THEN {<<>>}
    ELSE LET shorter == StringsUpTo(A, n - 1)
         IN  shorter \cup {Append(s, c) : s \in {t \in shorter : Len(t) = n - 1}, c \in A}

CodecIdle == [pc |-> "idle"]

SelIdle == [pc |-> "idle"]

BmpIdle == [pc |-> "idle"]

\* process_file is not running
PfIdle ==
    /\ file = [name |-> None, version |-> None, factorio_version |-> "",
               dependencies |-> <<>>]
    /\ args = [mode |-> "gte", write |-> FALSE, force |-> FALSE,
               upgrade |-> FALSE, bump |-> FALSE]
    /\ catalog = "down"
    /\ run = 0
    /\ pc = "idle"
    /\ info = file
    /\ current_version = None
    /\ deps = <<>>
    /\ new_deps = <<>>
    /\ changed = FALSE
    /\ deps_changed = FALSE
    /\ deps_latest_mismatch = FALSE
    /\ queries = <<>>

MaxPad == 1

\* Runs of at most m spaces
Pads(m) == {[k \in 1..n |-> " "] : n \in 0..m}

\* Every spacing of flag, name, operator and version: the strings DEP_RE is
\* written to accept, longer than MaxLen allows exhaustively
SpacedDeps(m) ==
    {w0 \o f \o w1 \o <<"a", "b">> \o w2 \o o \o w3 \o v \o w4 :
        w0 \in Pads(m), w1 \in Pads(m), w2 \in Pads(m), w3 \in Pads(m),
        w4 \in Pads(m),
        f \in {None, <<"!">>, <<"?">>},
        o \in Ops \cup {None},
        v \in {None, <<"1">>, <<"1", ".", "0">>}}

CodecInputs(n, m) == StringsUpTo(CodecAlphabet, n) \cup SpacedDeps(m)

InitCodec ==
    /\ codec \in {[pc |-> "in", s |-> s] : s \in CodecInputs(MaxLen, MaxPad)}
    /\ sel = SelIdle
    /\ bmp = BmpIdle
    /\ PfIdle

\* parse_dep(s) raises ValueError
CodecReject ==
    /\ codec.pc = "in"
    /\ ~parse_dep(codec.s).ok
    /\ codec' = [pc |-> "rejected", s |-> codec.s]
    /\ UNCHANGED <<sel, bmp, pfvars>>

\* build_dep(*parse_dep(s))
CodecRoundTrip ==
    /\ codec.pc = "in"
    /\ parse_dep(codec.s).ok
    /\ LET d == parse_dep(codec.s)
       IN  codec' = [pc |-> "built", s |-> codec.s, d |-> d,
                     out |-> build_dep(d.flag, d.name, d.op, d.ver)]
    /\ UNCHANGED <<sel, bmp, pfvars>>

NextCodec == CodecReject \/ CodecRoundTrip

SpecCodec == InitCodec /\ [][NextCodec]_vars

---------------------------------------------------------------------------
(* SpecSelect: fetch_latest_version's selection on every short release list *)

MaxReleases == 3

\* The dotted rendering of a tuple of numbers
Dotted(nums) == Join([k \in 1..Len(nums) |-> str(nums[k])], <<".">>)

SelectVersions == {<<1, 2, 0>>, <<9, 9, 9>>, <<1, 10>>, <<1, 2>>}

\* nums is the version as numbers, kept beside the string the code reads
ReleaseChoices ==
    {[fv |-> fv, version |-> Dotted(n), nums |-> n] :
        fv \in {"", "A", "B"}, n \in SelectVersions}
    \cup {[fv |-> "", version |-> None, nums |-> <<>>]}

RECURSIVE ListsUpTo(_, _)
ListsUpTo(S, n) ==
    IF n = 0 THEN {<<>>}
    ELSE LET shorter == ListsUpTo(S, n - 1)
         IN  shorter \cup {Append(l, x) : l \in {m \in shorter : Len(m) = n - 1}, x \in S}

InitSelect ==
    /\ sel \in {[pc |-> "in", releases |-> rs, want |-> w] :
                    rs \in ListsUpTo(ReleaseChoices, MaxReleases),
                    w \in {"", "A", "B"}}
    /\ codec = CodecIdle
    /\ bmp = BmpIdle
    /\ PfIdle

\* No releases, or none with a version: returns None
SelectNothing ==
    /\ sel.pc = "in"
    /\ latest_of(sel.releases, sel.want).kind = "None"
    /\ sel' = [sel EXCEPT !.pc = "done"] @@ [latest |-> None]
    /\ UNCHANGED <<codec, bmp, pfvars>>

\* Returns the version of the selected release
SelectRelease ==
    /\ sel.pc = "in"
    /\ latest_of(sel.releases, sel.want).kind = "ver"
    /\ sel' = [sel EXCEPT !.pc = "done"]
              @@ [latest |-> latest_of(sel.releases, sel.want).v]
    /\ UNCHANGED <<codec, bmp, pfvars>>

NextSelect == SelectNothing \/ SelectRelease

SpecSelect == InitSelect /\ [][NextSelect]_vars

---------------------------------------------------------------------------
(* SpecBump: bump_patch on every pair of short versions *)

MaxVerNum == 3

\* 5 is the remote patch of the documented example, 9 carries into two digits
VerNums(m) == (0..m) \cup {5, 9}

\* Versions of one to three components
VerTuples(m) == UNION {[1..n -> VerNums(m)] : n \in 1..3}

InitBump ==
    /\ bmp \in {[pc |-> "in", lnums |-> l, rnums |-> r,
                 local_ver |-> Dotted(l),
                 remote_ver |-> IF r = <<>> THEN None ELSE Dotted(r)] :
                    l \in VerTuples(MaxVerNum),
                    r \in VerTuples(MaxVerNum) \cup {<<>>}}
    /\ codec = CodecIdle
    /\ sel = SelIdle
    /\ PfIdle

\* bump_patch(local_ver, remote_ver) with a remote version
BumpAgainstRemote ==
    /\ bmp.pc = "in"
    /\ bmp.remote_ver # None
    /\ bmp' = [bmp EXCEPT !.pc = "done"]
              @@ [out |-> bump_patch(bmp.local_ver, bmp.remote_ver)]
    /\ UNCHANGED <<codec, sel, pfvars>>

\* bump_patch(local_ver, None)
BumpLocalOnly ==
    /\ bmp.pc = "in"
    /\ bmp.remote_ver = None
    /\ bmp' = [bmp EXCEPT !.pc = "done"]
              @@ [out |-> bump_patch(bmp.local_ver, None)]
    /\ UNCHANGED <<codec, sel, pfvars>>

NextBump == BumpAgainstRemote \/ BumpLocalOnly

SpecBump == InitBump /\ [][NextBump]_vars

---------------------------------------------------------------------------
(* process_file: names, the portal, and the rules of one loop iteration *)

Base == <<"b", "a", "s", "e">>

Foo == <<"f", "o", "o">>

Bar == <<"b", "a", "r">>

Qux == <<"q", "u", "x">>

Pk == <<"p", "k">>

Maj == <<"m", "a", "j">>

Old == <<"o", "l", "d">>

ZzQolLite == <<"z", "z", "-", "q", "o", "l", "-", "l", "i", "t", "e">>

MOD_PACK_NAMES == {ZzQolLite, <<"z", "z", "-", "q", "o", "l", "-", "p", "l", "u", "s">>, <<"z", "z", "-", "q", "o", "l", "-", "m", "a", "x">>, <<"z", "z", "-", "q", "o", "l", "-", "e", "d", "i", "t", "o", "r">>}

OpGte == <<">", "=">>

OpEq == <<"=", "=">>

OpSingleEq == <<"=">>

\* urlopen + json.load of https://mods.factorio.com/api/mods/<mod>: ok = FALSE
\* when either raises (no connection, HTTP 404, bad JSON)
portal(mod) ==
    IF catalog = "down" THEN [ok |-> FALSE]
    ELSE IF catalog = "empty" THEN [ok |-> TRUE, releases |-> <<>>]
    ELSE IF mod = Foo
    THEN [ok |-> TRUE,
          releases |-> << [fv |-> "2.0", version |-> <<"3", ".", "4", ".", "0">>],
                          [fv |-> "2.0", version |-> <<"3", ".", "4", ".", "1">>],
                          [fv |-> "1.1", version |-> <<"9", ".", "9", ".", "9">>] >>]
    ELSE IF mod = Bar
    THEN [ok |-> TRUE, releases |-> <<>>]
    ELSE IF mod = Pk
    THEN [ok |-> TRUE, releases |-> << [fv |-> "2.0", version |-> <<"1", ".", "2", ".", "5">>] >>]
    ELSE IF mod = Qux
    THEN [ok |-> TRUE, releases |-> << [fv |-> "2.0", version |-> <<"1", ".", "x">>] >>]
    ELSE IF mod = Maj
    THEN [ok |-> TRUE, releases |-> << [fv |-> "2.0", version |-> <<"5">>] >>]
    ELSE IF mod = Old
    THEN [ok |-> TRUE,
          releases |-> << [fv |-> "1.1", version |-> <<"0", ".", "9", ".", "1", "0">>],
                          [fv |-> "1.1", version |-> <<"0", ".", "9", ".", "9">>] >>]
    ELSE [ok |-> FALSE]

\* fetch_latest_version(mod, want_factorio): kind "ver", "None" or "raise"
fetch_latest_version(mod, want_factorio) ==
    LET data == portal(mod)
    IN  IF ~data.ok THEN [kind |-> "None"]
        ELSE latest_of(data.releases, want_factorio)

\* str.strip(): without its leading and trailing whitespace
strip(s) ==
    LET a == SkipWhile(s, 1, Space)
        b == IF a > Len(s) THEN a - 1
             ELSE CHOOSE j \in a..Len(s) :
                      /\ s[j] \notin Space
                      /\ \A k \in (j + 1)..Len(s) : s[k] \in Space
    IN  Slice(s, a, b)

\* Line 161 without the local pack names
reserved_no_packs(dep_name, name) == dep_name \in {Base} \cup {name}

\* Line 161: dep_name in {"base"} | MOD_PACK_NAMES | {name}
reserved(dep_name, name) == dep_name \in {Base} \cup MOD_PACK_NAMES \cup {name}

\* Line 167: op and not (force or upgrade)
skip_pinned(op, a) == op # None /\ ~(a.force \/ a.upgrade)

\* Line 171 never taken
skip_unsupported_never(op, a) == FALSE

\* Line 171: op and upgrade and op not in {">=", "==", "="}
skip_unsupported(op, a) ==
    op # None /\ a.upgrade /\ op \notin {OpGte, OpEq, OpSingleEq}

\* Lines 186-189 without the truncation to major.minor
gte_version_full(op, ver, latest, a) == latest

\* Lines 186-189 with the test of line 188 on two components instead of three
gte_version_two_parts(op, ver, latest, a) ==
    LET latest_parts == Split(latest, ".")
        two          == IF Len(latest_parts) >= 2
                        THEN Join(Slice(latest_parts, 1, 2), <<".">>)
                        ELSE latest
    IN  IF /\ a.upgrade
           /\ op \in {OpGte, OpSingleEq}
           /\ ver # None
           /\ Len(Split(ver, ".")) >= 2
        THEN latest
        ELSE two

\* Lines 186-189: gte_version
gte_version_of(op, ver, latest, a) ==
    LET latest_parts == Split(latest, ".")
        two          == IF Len(latest_parts) >= 2
                        THEN Join(Slice(latest_parts, 1, 2), <<".">>)
                        ELSE latest
    IN  IF /\ a.upgrade
           /\ op \in {OpGte, OpSingleEq}
           /\ ver # None
           /\ Len(Split(ver, ".")) >= 3
        THEN latest
        ELSE two

\* Lines 190-193: new_op (line 193 read as the body of the else of line 192)
new_op_of(op, a) ==
    IF op # None /\ ~a.force THEN op
    ELSE IF a.mode = "eq" THEN OpEq ELSE OpGte

\* Lines 186-195 with the flag left out of the rewritten entry
updated_dep_noflag(d, latest, a) ==
    LET new_op  == new_op_of(d.op, a)
        new_ver == IF new_op = OpGte
                   THEN gte_version_of(d.op, d.ver, latest, a)
                   ELSE latest
    IN  build_dep(None, d.name, new_op, new_ver)

\* Lines 186-195: the rewritten entry
updated_dep(d, latest, a) ==
    LET new_op  == new_op_of(d.op, a)
        new_ver == IF new_op = OpGte
                   THEN gte_version_of(d.op, d.ver, latest, a)
                   ELSE latest
    IN  build_dep(d.flag, d.name, new_op, new_ver)

\* Line 207 with the bump taken whatever happened
bump_reason_always(a, dc, dlm, remote_mismatch) == TRUE

\* Line 207 without deps_latest_mismatch
bump_reason_no_latest(a, dc, dlm, remote_mismatch) == a.bump \/ dc \/ remote_mismatch

\* Line 207: bump or deps_changed or deps_latest_mismatch or remote_mismatch
bump_reason(a, dc, dlm, remote_mismatch) == a.bump \/ dc \/ dlm \/ remote_mismatch

---------------------------------------------------------------------------
(* Spec: process_file on a manifest, then once more on what it left on disk *)

MaxDeps == 1

DepChoices ==
    { <<"f", "o", "o">>,
      <<"?", "f", "o", "o">>,
      <<"f", "o", "o", " ", ">", "=", " ", "1", ".", "0", ".", "0">>,
      <<"f", "o", "o", " ", "=", "=", " ", "1", ".", "0", ".", "0">>,
      <<"f", "o", "o", " ", "~", ">", " ", "1", ".", "0">>,
      <<"b", "a", "r", " ", ">", "=", " ", "1", ".", "0", ".", "0">>,
      <<"b", "a", "s", "e">>,
      <<"z", "z", "-", "q", "o", "l", "-", "l", "i", "t", "e", " ", ">", "=", " ", "1", ".", "0">>,
      <<"p", "k">>,
      <<"q", "u", "x">>,
      <<"f", "o", "o", " ", ">">> }

\* The dependencies of the documented end-to-end scenario
ExampleDeps == << <<"f", "o", "o">>, <<"b", "a", "r", " ", ">", "=", " ", "1", ".", "0", ".", "0">>, <<"b", "a", "s", "e">> >>

Manifests(m) ==
    {[name |-> n, version |-> v, factorio_version |-> "2.0", dependencies |-> ds] :
        n \in {Pk, None},
        v \in {<<"1", ".", "2", ".", "3">>, None},
        ds \in ListsUpTo(DepChoices, m) \cup {ExampleDeps}}

Args == [mode : {"gte", "eq"}, write : BOOLEAN, force : BOOLEAN,
         upgrade : BOOLEAN, bump : BOOLEAN]

\* Lines 138-150: the manifest is read and the locals are set
Load(f) ==
    /\ info' = f
    /\ current_version' = strip(f.version)
    /\ deps' = f.dependencies
    /\ new_deps' = <<>>
    /\ changed' = FALSE
    /\ deps_changed' = FALSE
    /\ deps_latest_mismatch' = FALSE
    /\ queries' = <<>>
    /\ pc' = "loop"

Init ==
    /\ codec = CodecIdle
    /\ sel = SelIdle
    /\ bmp = BmpIdle
    /\ file \in Manifests(MaxDeps)
    /\ args \in Args
    /\ catalog \in {"live", "empty", "down"}
    /\ run = 1
    /\ info = file
    /\ current_version = strip(file.version)
    /\ deps = file.dependencies
    /\ new_deps = <<>>
    /\ changed = FALSE
    /\ deps_changed = FALSE
    /\ deps_latest_mismatch = FALSE
    /\ queries = <<>>
    /\ pc = "loop"

InLoop == pc = "loop" /\ Len(new_deps) < Len(deps)

\* The entry the loop is at, and its position
idx == Len(new_deps) + 1

dep == deps[idx]

\* Lines 153-180 decide that the parsed entry d goes to the portal
goes_to_portal(d) ==
    /\ d.ok
    /\ ~reserved(d.name, info.name)
    /\ ~skip_pinned(d.op, args)
    /\ ~skip_unsupported(d.op, args)

Keep ==
    /\ new_deps' = Append(new_deps, dep)
    /\ UNCHANGED <<codec, sel, bmp, file, args, catalog, run, pc, info,
                   current_version, deps, changed, deps_changed,
                   deps_latest_mismatch>>

\* Lines 154-158: parse_dep raised, the entry is kept as it is
KeepUnparsable ==
    /\ InLoop
    /\ ~parse_dep(dep).ok
    /\ Keep
    /\ UNCHANGED queries

\* Lines 161-164: base, a local pack or the manifest itself
KeepReserved ==
    /\ InLoop
    /\ LET d == parse_dep(dep)
       IN  d.ok /\ reserved(d.name, info.name)
    /\ Keep
    /\ UNCHANGED queries

\* Lines 167-170: already pinned, neither force nor upgrade
KeepPinned ==
    /\ InLoop
    /\ LET d == parse_dep(dep)
       IN  /\ d.ok
           /\ ~reserved(d.name, info.name)
           /\ skip_pinned(d.op, args)
    /\ Keep
    /\ UNCHANGED queries

\* Lines 171-174: an upgrade of a comparator that is not >=, == or =
KeepUnsupported ==
    /\ InLoop
    /\ LET d == parse_dep(dep)
       IN  /\ d.ok
           /\ ~reserved(d.name, info.name)
           /\ ~skip_pinned(d.op, args)
           /\ skip_unsupported(d.op, args)
    /\ Keep
    /\ UNCHANGED queries

\* Lines 176-180: the portal has nothing for the entry
KeepUnresolved ==
    /\ InLoop
    /\ LET d      == parse_dep(dep)
           latest == fetch_latest_version(d.name, info.factorio_version)
       IN  /\ goes_to_portal(d)
           /\ latest.kind = "None"
           /\ queries' = Append(queries, [idx |-> idx, mod |-> d.name, res |-> latest])
    /\ Keep

\* Lines 176-200: the entry is resolved and rewritten
Rewrite ==
    /\ InLoop
    /\ LET d       == parse_dep(dep)
           latest  == fetch_latest_version(d.name, info.factorio_version)
           updated == updated_dep(d, latest.v, args)
       IN  /\ goes_to_portal(d)
           /\ latest.kind = "ver"
           /\ queries' = Append(queries, [idx |-> idx, mod |-> d.name, res |-> latest])
           /\ deps_latest_mismatch' =
                 (deps_latest_mismatch \/ (d.ver # None /\ latest.v # d.ver))
           /\ deps_changed' = (deps_changed \/ updated # dep)
           /\ changed' = (changed \/ updated # dep)
           /\ new_deps' = Append(new_deps, updated)
    /\ UNCHANGED <<codec, sel, bmp, file, args, catalog, run, pc, info,
                   current_version, deps>>

\* Line 202: the manifest's own entry at the portal
remote_of(nm) ==
    IF nm # None THEN fetch_latest_version(nm, info.factorio_version)
    ELSE [kind |-> "None"]

\* Lines 202-220: the bump, the write, the return
Finish ==
    /\ pc = "loop"
    /\ Len(new_deps) = Len(deps)
    /\ LET remote == remote_of(info.name)
           remote_latest == IF remote.kind = "ver" THEN remote.v ELSE None
           remote_mismatch == /\ remote_latest # None
                              /\ current_version # None
                              /\ remote_latest # current_version
           reason == bump_reason(args, deps_changed, deps_latest_mismatch,
                                 remote_mismatch)
           bumping == reason /\ current_version # None
           new_version == bump_patch(current_version, remote_latest)
           now_changed == changed \/ (bumping /\ new_version.v # current_version)
           now_info == IF bumping /\ new_version.v # current_version
                       THEN [info EXCEPT !.version = new_version.v]
                       ELSE info
       IN  /\ remote.kind # "raise"
           /\ bumping => new_version.ok
           /\ queries' = IF info.name # None
                         THEN Append(queries, [idx |-> 0, mod |-> info.name, res |-> remote])
                         ELSE queries
           /\ changed' = now_changed
           /\ IF now_changed /\ args.write
              THEN /\ info' = [now_info EXCEPT !.dependencies = new_deps]
                   /\ file' = [now_info EXCEPT !.dependencies = new_deps]
              ELSE /\ info' = now_info
                   /\ file' = file
    /\ pc' = "done"
    /\ UNCHANGED <<codec, sel, bmp, args, catalog, run, current_version, deps,
                   new_deps, deps_changed, deps_latest_mismatch>>

\* parse_ver (line 77) or parse_version (line 111) raises ValueError inside
\* process_file: nothing is written, main() reports the error (lines 245-246)
Abort ==
    /\ pc = "loop"
    /\ IF Len(new_deps) < Len(deps)
       THEN LET d == parse_dep(dep)
            IN  /\ goes_to_portal(d)
                /\ fetch_latest_version(d.name, info.factorio_version).kind = "raise"
       ELSE LET remote == remote_of(info.name)
                remote_latest == IF remote.kind = "ver" THEN remote.v ELSE None
                remote_mismatch == /\ remote_latest # None
                                   /\ current_version # None
                                   /\ remote_latest # current_version
            IN  \/ remote.kind = "raise"
                \/ /\ bump_reason(args, deps_changed, deps_latest_mismatch,
                                  remote_mismatch)
                   /\ current_version # None
                   /\ ~bump_patch(current_version, remote_latest).ok
    /\ pc' = "error"
    /\ UNCHANGED <<codec, sel, bmp, file, args, catalog, run, info,
                   current_version, deps, new_deps, changed, deps_changed,
                   deps_latest_mismatch, queries>>

\* process_file is called a second time on the same path, same arguments
Rerun ==
    /\ pc \in {"done", "error"}
    /\ run = 1
    /\ run' = 2
    /\ Load(file)
    /\ UNCHANGED <<codec, sel, bmp, file, args, catalog>>

Next ==
    \/ KeepUnparsable
    \/ KeepReserved
    \/ KeepPinned
    \/ KeepUnsupported
    \/ KeepUnresolved
    \/ Rewrite
    \/ Finish
    \/ Abort
    \/ Rerun

Spec == Init /\ [][Next]_vars

---------------------------------------------------------------------------
(* SpecRepin: two write-mode passes over one entry of every shape *)

RepinVers == { <<"1", ".", "0">>, <<"1", ".", "0", ".", "0">>, <<"3", ".", "4", ".", "1">> }

\* Every operator on versions of two and three components, with and without
\* a flag, for a mod whose latest release has three components (foo), one
\* (maj), or exists for another factorio_version only (old); and the entries
\* of Spec
RepinDeps ==
    {build_dep(f, n, o, v) :
        f \in {None, <<"?">>}, n \in {Foo, Maj, Old}, o \in Ops, v \in RepinVers}
    \cup {build_dep(f, n, None, None) :
        f \in {None, <<"!">>, <<"?">>}, n \in {Foo, Maj, Old}}
    \cup DepChoices

RepinLists ==
    {<<e>> : e \in RepinDeps}
    \cup {ExampleDeps,
          << <<"f", "o", "o", " ", "=", "=", " ", "1", ".", "0", ".", "0">>,
             <<"?", "m", "a", "j">>,
             <<"f", "o", "o", " ", ">">>,
             <<"o", "l", "d", " ", ">", "=", " ", "1", ".", "0", ".", "0">> >>}

\* As Init, with the write flag set
InitRepin ==
    /\ codec = CodecIdle
    /\ sel = SelIdle
    /\ bmp = BmpIdle
    /\ file \in {[name |-> n, version |-> v, factorio_version |-> "2.0",
                  dependencies |-> ds] :
                    n \in {Pk, None},
                    v \in {<<"1", ".", "2", ".", "3">>, None},
                    ds \in RepinLists}
    /\ args \in {a \in Args : a.write}
    /\ catalog \in {"live", "empty", "down"}
    /\ run = 1
    /\ info = file
    /\ current_version = strip(file.version)
    /\ deps = file.dependencies
    /\ new_deps = <<>>
    /\ changed = FALSE
    /\ deps_changed = FALSE
    /\ deps_latest_mismatch = FALSE
    /\ queries = <<>>
    /\ pc = "loop"

SpecRepin == InitRepin /\ [][Next]_vars

---------------------------------------------------------------------------
(* C1 *)

OpChars == {">", "<", "=", "~"}

\* Canonical spacing, read off the string alone: no leading or trailing
\* space, no two spaces in a row, a flag followed by a space, an operator
\* with a space on each side.
Canonical(s) ==
    /\ Len(s) > 0 => (s[1] \notin Space /\ s[Len(s)] \notin Space)
    /\ \A k \in 1..(Len(s) - 1) :
          /\ s[k] \in Space => s[k + 1] \notin Space
          /\ s[k] \in FlagChars => s[k + 1] \in Space
          /\ (s[k] \in OpChars /\ s[k + 1] \notin OpChars) => s[k + 1] \in Space
          /\ (s[k + 1] \in OpChars /\ s[k] \notin OpChars) => s[k] \in Space

\* C1 as stated: for every string s that parse_dep accepts, build_dep applied
\* to the fields parse_dep returns is s itself.
C1_RoundTripAll ==
    codec.pc = "built" => codec.out = codec.s

\* C1 amended: build_dep(parse_dep(s)) is s exactly when the accepted s is in
\* canonical spacing; for every accepted s the rebuilt string is accepted and
\* parses to the same four fields.
C1_RoundTripCanonical ==
    codec.pc = "built" =>
        /\ (codec.out = codec.s) <=> Canonical(codec.s)
        /\ parse_dep(codec.out) = codec.d

\* A canonical string with a flag, an operator and a dotted version has been
\* parsed and rebuilt.
C1_Witness ==
    /\ codec.pc = "built"
    /\ Canonical(codec.s)
    /\ codec.d.flag # None
    /\ codec.d.op # None
    /\ Len(codec.d.ver) > 1

---------------------------------------------------------------------------
(* C3 *)

\* A tuple of numbers padded with zeros to n components
PadTo(nums, n) == [k \in 1..n |-> IF k <= Len(nums) THEN nums[k] ELSE 0]

\* a <= b in lexicographic order, both padded to the longer of the two
VersionLeq(a, b) ==
    LET n  == IF Len(a) > Len(b) THEN Len(a) ELSE Len(b)
        pa == PadTo(a, n)
        pb == PadTo(b, n)
    IN  \/ pa = pb
        \/ \E k \in 1..n : (\A j \in 1..(k - 1) : pa[j] = pb[j]) /\ pa[k] < pb[k]

\* Priority 0: the release has no tag, or its tag is the wanted one, or no
\* tag is wanted; priority 1: a tag that differs from the wanted one.
Priority(rel, want) == IF rel.fv = "" \/ want = "" \/ rel.fv = want THEN 0 ELSE 1

\* The releases that carry a version
Versioned(rs) == {k \in 1..Len(rs) : rs[k].version # None}

\* C3: the selection returns a release of maximum version among the
\* priority-0 releases when there is one, and of maximum version among the
\* priority-1 releases only when there is none.
C3_TwoTier ==
    (sel.pc = "done" /\ Versioned(sel.releases) # {}) =>
        LET rs   == sel.releases
            tier == IF \E k \in Versioned(rs) : Priority(rs[k], sel.want) = 0
                    THEN 0 ELSE 1
            pool == {k \in Versioned(rs) : Priority(rs[k], sel.want) = tier}
        IN  \E k \in pool :
                /\ rs[k].version = sel.latest
                /\ \A j \in pool : VersionLeq(rs[j].nums, rs[k].nums)

\* The documented example: [(tag A, 1.2.0), (tag B, 9.9.9)] with wanted tag A
\* has been decided, and 1.2.0 returned.
C3_Witness ==
    /\ sel.pc = "done"
    /\ sel.want = "A"
    /\ sel.releases = << [fv |-> "A", version |-> Dotted(<<1, 2, 0>>), nums |-> <<1, 2, 0>>],
                         [fv |-> "B", version |-> Dotted(<<9, 9, 9>>), nums |-> <<9, 9, 9>>] >>
    /\ sel.latest = <<"1", ".", "2", ".", "0">>

---------------------------------------------------------------------------
(* C7 *)

\* The larger of two three-component tuples, component by component
LexMax3(a, b) ==
    IF \/ a[1] > b[1]
       \/ (a[1] = b[1] /\ a[2] > b[2])
       \/ (a[1] = b[1] /\ a[2] = b[2] /\ a[3] >= b[3])
    THEN a ELSE b

\* C7: bump_patch returns max(L, R), both padded with zeros to three
\* components and an absent R counting as 0.0.0, with the third component
\* incremented by one.
C7_BumpIsMaxPlusOne ==
    bmp.pc = "done" =>
        LET m == LexMax3(PadTo(bmp.lnums, 3), PadTo(bmp.rnums, 3))
        IN  /\ bmp.out.ok
            /\ bmp.out.v = Dotted(<<m[1], m[2], m[3] + 1>>)

\* The documented example: L = 1.2.3 and R = 1.2.5 give 1.2.6.
C7_Witness ==
    /\ bmp.pc = "done"
    /\ bmp.local_ver = <<"1", ".", "2", ".", "3">>
    /\ bmp.remote_ver = <<"1", ".", "2", ".", "5">>
    /\ bmp.out.v = <<"1", ".", "2", ".", "6">>

---------------------------------------------------------------------------
(* Reading a pass: what the claims about process_file speak of *)

\* The entries the loop has emitted so far
Emitted == 1..Len(new_deps)

\* The names no pass may touch: base, the manifest's own name, the local packs
ReservedNames ==
    {Base, info.name, <<"z", "z", "-", "q", "o", "l", "-", "l", "i", "t", "e">>, <<"z", "z", "-", "q", "o", "l", "-", "p", "l", "u", "s">>, <<"z", "z", "-", "q", "o", "l", "-", "m", "a", "x">>, <<"z", "z", "-", "q", "o", "l", "-", "e", "d", "i", "t", "o", "r">>}

\* Entry i went to the portal during this pass
Queried(i) == \E q \in 1..Len(queries) : queries[q].idx = i

\* Entry i parses and its name is not reserved
Pinnable(i) ==
    LET d == parse_dep(deps[i])
    IN  d.ok /\ d.name \notin ReservedNames

\* The portal resolved a release for entry i during this pass
Resolved(i) == \E q \in 1..Len(queries) : queries[q].idx = i /\ queries[q].res.kind = "ver"

\* ... and this is its version
LatestFor(i) ==
    queries[CHOOSE q \in 1..Len(queries) : queries[q].idx = i].res.v

\* The operator the pin mode stands for
ModeOp == IF args.mode = "eq" THEN <<"=", "=">> ELSE <<">", "=">>

---------------------------------------------------------------------------
(* C2 *)

\* C2: an entry whose parsed name is base, the manifest's own name or a local
\* pack is emitted as its raw string, and no portal query is made for it,
\* whatever mode, force, upgrade and bump are.
C2_ReservedUntouched ==
    \A i \in Emitted :
        LET d == parse_dep(deps[i])
        IN  (d.ok /\ d.name \in ReservedNames) =>
                /\ new_deps[i] = deps[i]
                /\ ~Queried(i)

\* A pinned local pack has gone through a pass run with force and upgrade on
\* a live portal, in a manifest that has a name of its own.
C2_Witness ==
    /\ pc = "done"
    /\ catalog = "live"
    /\ args.force /\ args.upgrade
    /\ info.name = Pk
    /\ \E i \in Emitted :
          LET d == parse_dep(deps[i])
          IN  /\ d.ok
              /\ d.name = ZzQolLite
              /\ d.op # None
              /\ new_deps[i] = deps[i]

---------------------------------------------------------------------------
(* C4 *)

\* C4: with upgrade and without force, a non-reserved entry constrained by
\* <= or ~> is emitted unchanged and is not looked up.
C4_IneligibleOperatorKept ==
    (args.upgrade /\ ~args.force) =>
        \A i \in Emitted :
            LET d == parse_dep(deps[i])
            IN  (/\ d.ok
                 /\ d.name \notin ReservedNames
                 /\ d.op \in {<<"<", "=">>, <<"~", ">">>}) =>
                    /\ new_deps[i] = deps[i]
                    /\ ~Queried(i)

\* "foo ~> 1.0" has gone through an upgrade pass without force, on a portal
\* that has releases of foo.
C4_Witness ==
    /\ pc = "done"
    /\ catalog = "live"
    /\ args.upgrade /\ ~args.force
    /\ \E i \in Emitted : deps[i] = <<"f", "o", "o", " ", "~", ">", " ", "1", ".", "0">> /\ new_deps[i] = deps[i]

---------------------------------------------------------------------------
(* C5 *)

\* The portal has a release to resolve the name to
PortalResolves(name) ==
    fetch_latest_version(name, info.factorio_version).kind = "ver"

\* C5: a parsable, non-reserved entry the portal can resolve is emitted with
\* its own operator when it has a constraint and force is not set, and with
\* the pin-mode operator otherwise; under force it is re-pinned with the
\* pin-mode operator whatever its operator was, with or without upgrade.
C5_NewOperator ==
    \A i \in Emitted :
        (Pinnable(i) /\ PortalResolves(parse_dep(deps[i]).name)) =>
            LET d == parse_dep(deps[i])
                e == parse_dep(new_deps[i])
            IN  /\ e.ok
                /\ e.op = IF d.op # None /\ ~args.force THEN d.op ELSE ModeOp
                /\ args.force => Resolved(i)

---------------------------------------------------------------------------
(* C6 *)

\* The first two components of a dotted version
MajorMinor(v) ==
    LET parts == Split(v, ".")
    IN  IF Len(parts) >= 2 THEN parts[1] \o <<".">> \o parts[2] ELSE v

\* C6: a rewritten entry whose emitted operator is >= carries the resolved
\* version cut to two components, unless upgrade is set and the prior
\* constraint had a version of three or more components, whatever its
\* operator, and then the full resolved version; an emitted operator other
\* than >= carries the full resolved version.
C6_NewVersion ==
    \A i \in Emitted :
        Resolved(i) =>
            LET d == parse_dep(deps[i])
                e == parse_dep(new_deps[i])
                v == LatestFor(i)
            IN  e.ver = IF e.op # <<">", "=">> THEN v
                        ELSE IF /\ args.upgrade
                                /\ d.ver # None
                                /\ Len(Split(d.ver, ".")) >= 3
                        THEN v
                        ELSE MajorMinor(v)

---------------------------------------------------------------------------
(* C8 *)

\* Some entry's emitted string differs from its raw string
SomeEntryRewritten == \E i \in Emitted : new_deps[i] # deps[i]

\* Some resolved entry's latest version differs from the version it had
SomeLatestDiffers ==
    \E i \in Emitted :
        /\ Resolved(i)
        /\ LET d == parse_dep(deps[i])
           IN  d.ver # None /\ LatestFor(i) # d.ver

\* The manifest's own portal entry reports a version other than the declared
OwnEntryDiffers ==
    \E q \in 1..Len(queries) :
        /\ queries[q].idx = 0
        /\ queries[q].res.kind = "ver"
        /\ queries[q].res.v # current_version

\* C8: when a pass returns, the declared version has been changed if and only
\* if it is non-empty and the bump flag is set, or an entry was rewritten, or
\* a resolved entry's latest version differs from the one recorded, or the
\* manifest's own portal entry reports another version; an empty declared
\* version is never changed.
C8_BumpTrigger ==
    pc = "done" =>
        ((info.version # current_version) <=>
            /\ current_version # None
            /\ \/ args.bump
               \/ SomeEntryRewritten
               \/ SomeLatestDiffers
               \/ OwnEntryDiffers)

\* A pass has bumped the version for the one reason that a resolved entry's
\* latest version differs from the recorded one: no entry was rewritten, the
\* bump flag is unset and the manifest has no portal entry of its own.
C8_Witness ==
    /\ pc = "done"
    /\ info.version # current_version
    /\ SomeLatestDiffers
    /\ ~args.bump
    /\ ~SomeEntryRewritten
    /\ ~OwnEntryDiffers

---------------------------------------------------------------------------
(* C9 *)

DefaultPass == args.mode = "gte" /\ ~args.force /\ ~args.upgrade

\* C9: in a default pass (mode gte, no force, no upgrade) an unconstrained,
\* non-reserved entry resolved to X.Y.Z is emitted as name >= X.Y (after its
\* flag, if any), a constrained entry is emitted unchanged without a lookup,
\* and the pass returns changed = true when an entry was rewritten.
C9_DefaultPass ==
    DefaultPass =>
        /\ \A i \in Emitted :
              LET d == parse_dep(deps[i])
              IN  (d.ok /\ d.name \notin ReservedNames) =>
                     /\ d.op # None => (new_deps[i] = deps[i] /\ ~Queried(i))
                     /\ (d.op = None /\ Resolved(i)) =>
                           \* name >= X.Y followed by .Z is name >= X.Y.Z
                           \E z \in DigitChars :
                              new_deps[i] \o <<".", z>> =
                                 (IF d.flag # None THEN d.flag \o <<" ">> ELSE <<>>)
                                 \o d.name \o <<" ", ">", "=", " ">> \o LatestFor(i)
        /\ (pc = "done" /\ SomeEntryRewritten) => changed

\* The documented scenario: ["foo", "bar >= 1.0.0", "base"] with foo's latest
\* 3.4.1 has given ["foo >= 3.4", "bar >= 1.0.0", "base"] and changed = true.
C9_Witness ==
    /\ pc = "done"
    /\ DefaultPass
    /\ deps = << <<"f", "o", "o">>, <<"b", "a", "r", " ", ">", "=", " ", "1", ".", "0", ".", "0">>, <<"b", "a", "s", "e">> >>
    /\ new_deps = << <<"f", "o", "o", " ", ">", "=", " ", "3", ".", "4">>, <<"b", "a", "r", " ", ">", "=", " ", "1", ".", "0", ".", "0">>, <<"b", "a", "s", "e">> >>
    /\ changed

---------------------------------------------------------------------------
(* C10 *)

NothingResolvable == catalog \in {"empty", "down"}

\* C10 as stated: when the portal has no release for any name, or every
\* query fails, the second of two runs on the same manifest returns
\* changed = false, whatever mode, force, upgrade and bump are.
C10_SecondRunUnchanged ==
    (NothingResolvable /\ run = 2 /\ pc = "done") => ~changed

\* C10 amended: under the same portal the second run returns changed = true
\* exactly when the bump flag is set and the declared version is non-empty;
\* without the bump flag it returns changed = false.
C10_SecondRunChangedIffForcedBump ==
    (NothingResolvable /\ run = 2 /\ pc = "done") =>
        (changed <=> (args.bump /\ current_version # None))

\* A second run without the bump flag has returned, under force and upgrade,
\* on a manifest with a declared version and an unpinned, non-reserved entry
\* the portal was asked about.
C10_Witness ==
    /\ NothingResolvable
    /\ run = 2
    /\ pc = "done"
    /\ ~args.bump /\ args.force /\ args.upgrade /\ args.write
    /\ current_version # None
    /\ ~changed
    /\ \E i \in Emitted : deps[i] = Foo /\ Queried(i)

---------------------------------------------------------------------------
(* C11 *)

\* The loop stands at an entry that goes to the portal and whose query does
\* not give a version: the portal is down, has no release, or has a release
\* whose version is not dotted integers
CatalogFailureAtEntry ==
    /\ Len(new_deps) < Len(deps)
    /\ LET d == parse_dep(dep)
       IN  /\ goes_to_portal(d)
           /\ fetch_latest_version(d.name, info.factorio_version).kind # "ver"

\* The number of portal queries this pass made for entry i
QueriesFor(i) == Cardinality({q \in 1..Len(queries) : queries[q].idx = i})

\* C11: an entry whose portal query fails or reports no release is emitted
\* unchanged, no entry is queried more than once in a pass, and the pass is
\* never aborted at an entry whose query failed: it goes on to the next entry
\* and then to the bump step.
C11_CatalogFailureContained ==
    /\ \A i \in Emitted : (Queried(i) /\ ~Resolved(i)) => new_deps[i] = deps[i]
    /\ \A i \in 1..Len(deps) : QueriesFor(i) <= 1
    /\ pc = "error" => ~CatalogFailureAtEntry

---------------------------------------------------------------------------
(* C12 *)

\* C12: the emitted sequence follows the input position by position and, when
\* the pass returns, has the input's length; the i-th emitted entry is the
\* i-th raw string, always so when that string does not parse, or else a
\* constrained entry with the flag and the name of the i-th input. With the
\* write flag the dependencies left on disk are the emitted sequence.
C12_PositionalPreservation ==
    /\ Len(new_deps) <= Len(deps)
    /\ pc = "done" => Len(new_deps) = Len(deps)
    /\ \A i \in Emitted :
          \/ new_deps[i] = deps[i]
          \/ LET d == parse_dep(deps[i])
                 e == parse_dep(new_deps[i])
             IN  /\ d.ok
                 /\ e.ok
                 /\ e.flag = d.flag
                 /\ e.name = d.name
                 /\ e.op # None
                 /\ e.ver # None
    /\ (pc = "done" /\ args.write) => file.dependencies = new_deps

\* A pass has returned after rewriting the optional entry "?foo" into
\* "? foo >= 3.4".
C12_Witness ==
    /\ pc = "done"
    /\ \E i \in Emitted :
          /\ deps[i] = <<"?", "f", "o", "o">>
          /\ new_deps[i] = <<"?", " ", "f", "o", "o", " ", ">", "=", " ", "3", ".", "4">>

---------------------------------------------------------------------------
(* C13 *)

\* C13: with the same portal and the same mode, force and upgrade, and the
\* bump flag unset, the second of two write-mode passes, run on the manifest
\* the first one left on disk, does not change the declared version and
\* returns changed = false.
C13_SecondPassFixedPoint ==
    (run = 2 /\ pc = "done" /\ args.write /\ ~args.bump) =>
        /\ info.version = current_version
        /\ ~changed

---------------------------------------------------------------------------
(* C14 *)

\* C14: a write-mode pass leaves its emitted list on disk, and the second
\* pass, run on that list with the same mode, force and upgrade and the same
\* portal, emits every entry as it reads it.
C14_RepinIdempotent ==
    /\ (pc = "done" /\ args.write) => file.dependencies = new_deps
    /\ (run = 2 /\ pc = "done" /\ args.write) => new_deps = deps

\* The second pass, with force and upgrade, has looked up and emitted again
\* "? old >= 0.9", an entry that only a first pass can have written: its
\* version is the major.minor of the latest release of old.
C14_Witness ==
    /\ run = 2
    /\ pc = "done"
    /\ args.write /\ args.force /\ args.upgrade
    /\ deps = << <<"?", " ", "o", "l", "d", " ", ">", "=", " ", "0", ".", "9">> >>
    /\ Queried(1) /\ Resolved(1)
    /\ new_deps = deps

=============================================================================
